---- MODULE Spec2Model ----
(***************************************************************************)
(* Model of the GitLens explorer: RepositoriesNode (the root aggregation   *)
(* node, views/nodes/repositoriesNode.ts) and GitExplorer (the tree data   *)
(* provider).  Asynchronous methods are split at their await points; every *)
(* action is the code that runs between two suspension points.             *)
(***************************************************************************)
EXTENDS Integers, Sequences, FiniteSets, TLC

\* ---------------------------------------------------------------- bounds
MaxNodes == 3        \* node instances constructed in one behaviour
MaxCalls == 2        \* asynchronous calls that may be in flight at once
MaxSubs  == 2        \* repositories-changed subscriptions active at once
MaxTrees == 3        \* tree-view handles created in one behaviour
MaxPageCalls == 3    \* refreshNode calls recorded for the paging node
MaxCount == 100      \* largest paging cursor followed
MaxSessions == 2     \* debug sessions alive at once
MaxRegs == 2         \* hover-provider registrations of one kind active at once

\* ------------------------------------------------- repository descriptors
Paths    == {"a", "b", "c"}     \* normalized repository paths
Indices  == {0, 1}              \* externally assigned repository indices
NodeIds  == 1..MaxNodes

Repository == [path : Paths, index : Indices, closed : BOOLEAN]

VARIABLES
    backend,        \* Container.git repository set
    children,       \* RepositoriesNode.children : Undef or a sequence of nodes
    nextId,         \* identity of the next node instance constructed
    disposeCount,   \* per node instance, number of dispose() calls received
    childRefreshed, \* instances whose refresh() the latest root refresh called
    gcAwait,        \* getChildren() calls suspended at the await of line 24
    rfAwait,        \* refresh() calls suspended at the await of line 48
    gcRet,          \* list returned by getChildren() in place of a cache (line 25)
    lastRefresh     \* outcome of the latest RepositoriesNode.refresh()

varsR == <<backend, children, nextId, disposeCount, childRefreshed, gcAwait,
           rfAwait, gcRet, lastRefresh>>

VARIABLES
    cfg,                    \* Container.config.gitExplorer: enabled, location, autoRefresh
    wsAutoRefresh,          \* workspaceState[GitExplorerAutoRefresh]: Unset, "true" or "false"
    autoRefreshDisposable,  \* GitExplorer._autoRefreshDisposable is defined
    activeSubs,             \* undisposed onDidChangeRepositories subscriptions
    ctxAutoRefresh,         \* command context GitExplorerAutoRefresh
    ctxGitExplorer,         \* command context GitExplorer
    sarAwait,               \* setAutoRefresh calls suspended at line 233, per override
    sarOverlap,             \* some setAutoRefresh call ran while another was suspended
    root,                   \* GitExplorer._root: 0 or the RepositoriesNode instance
    tree,                   \* GitExplorer._tree: 0 or the tree-view handle
    treeLocation,           \* location the handle in _tree was created for
    disposable,             \* GitExplorer._disposable: 0 or the handle it wraps
    activeTrees,            \* undisposed tree-view handles
    nextTree,               \* identity of the next tree-view handle
    exAwait,                \* GitExplorer.refresh calls awaiting root.refresh(), line 191
    exReady,                \* GitExplorer.refresh calls whose await has resolved
    lastReason,             \* reason logged by the latest GitExplorer.refresh, line 188
    treeDataFired,          \* argument of the latest _onDidChangeTreeData.fire
    maxCount,               \* node.maxCount of the nodes refreshNode is applied to
    pagedArgs               \* args.maxCount of the refreshNode calls made on the paging node

varsA == <<wsAutoRefresh, autoRefreshDisposable, activeSubs, ctxAutoRefresh, sarAwait, sarOverlap>>
varsT == <<root, tree, treeLocation, disposable, activeTrees, nextTree>>
varsX == <<exAwait, exReady, lastReason, treeDataFired>>
varsP == <<maxCount, pagedArgs>>
varsE == <<cfg, ctxGitExplorer, varsA, varsT, varsX, varsP>>

VARIABLES
    effects                 \* effects the latest onConfigurationChanged ran, in call order

VARIABLES
    hovers,                     \* Container.config.hovers
    activeEditor,               \* window.activeTextEditor: "none" or its document
    providers,                  \* per hover kind, undisposed registerHoverProvider registrations
    providerDoc,                \* document selector of the latest registration
    hoverProviderDisposable,    \* kinds wrapped by _hoverProviderDisposable ({}: undefined)
    tracking,                   \* the line tracker holds the controller's subscription
    ctlDisposable,              \* LineHoverController._disposable is undisposed
    debugSessionEndDisposable,  \* _debugSessionEndDisposable is defined
    debugEndSubs,               \* undisposed onDidTerminateDebugSession subscriptions
    linesEvent,                 \* the latest event onActiveLinesChanged received: <<>> or <<e>>
    debugSessions               \* debug sessions of the host started and not terminated

varsHR == <<hovers, activeEditor, providers, providerDoc, hoverProviderDisposable,
            tracking, ctlDisposable, debugSessionEndDisposable, debugEndSubs, linesEvent,
            debugSessions>>

VARIABLES
    fileAnnotations,    \* annotation type of the active editor: "undefined" or "blame"
    suspended,          \* Container.lineAnnotations.suspended
    lineTracked,        \* Container.lineTracker.includes(position.line)
    lineState,          \* Container.lineTracker.getState(position.line): <<>> or <<state>>
    hv                  \* the provideHover call in flight with its locals, or its result

varsHD == <<fileAnnotations, suspended, lineTracked, lineState, hv>>
varsH == <<varsHR, varsHD>>

VARIABLES
    actPc,              \* position of activate(): the await it is suspended at, or its return
    initError,          \* the exception the catch of line 258 received ("none": none)
    errorLog,           \* Logger.error calls, in call order
    errorsShown,        \* window.showErrorMessage calls
    ctxEnabled,         \* command context CommandContext.Enabled
    storedVersion,      \* globalState[GitLensVersion]: <<>> or <<version>>
    constructed,        \* components constructed or registered by activate()
    suppressedFlags,    \* globalState[m] for the suppressed-message keys m
    messages,           \* setting advanced.messages, global target
    closeOnFocusOut,    \* setting advanced.quickPick.closeOnFocusOut: its inspected values
    updating            \* the configuration.update call awaited: <<>> or <<call>>

varsV == <<actPc, initError, errorLog, errorsShown, ctxEnabled, storedVersion, constructed,
           suppressedFlags, messages, closeOnFocusOut, updating>>
varsO == <<varsH, varsV>>

\* ------------------------------------------------------------ node model
RepositoryNode(id, repo) == [id |-> id, kind |-> "repo", path |-> repo.path]
MessageNode(id)          == [id |-> id, kind |-> "message", path |-> "none"]
\* this.children === undefined (no list has been cached)
Undef == <<[id |-> 0, kind |-> "undefined", path |-> "none"]>>
\* getChildren() has returned no list of its own since the latest refresh
NoRet == <<[id |-> 0, kind |-> "none", path |-> "none"]>>
\* no value stored under the workspace-state key
Unset == "unset"

\* repositories.sort((a, b) => a.index - b.index)
RECURSIVE SortByIndex(_)
SortByIndex(S) ==
    IF S = {} THEN <<>>
    ELSE LET m == CHOOSE r \in S : \A q \in S : r.index <= q.index
         IN  <<m>> \o SortByIndex(S \ {m})

\* getChildren, lines 27-35: one new RepositoryNode per non-closed repository
RECURSIVE BuildChildren(_, _, _)
BuildChildren(repos, i, nid) ==
    IF i > Len(repos) THEN <<>>
    ELSE IF repos[i].closed THEN BuildChildren(repos, i + 1, nid)
    ELSE <<RepositoryNode(nid, repos[i])>> \o BuildChildren(repos, i + 1, nid + 1)

\* mutant: the predicate never matches, every repository gets a new node
FindChildNever(old, p) == 0

\* mutant: the predicate is always truthy, find returns the first child
FindChildAny(old, p) ==
    IF Len(old) = 0 THEN 0 ELSE IF old[1].kind = "message" THEN -1 ELSE 1

\* this.children.find(c => c.repo.normalizedPath === normalizedPath):
\* index of the first match, 0 when there is none, -1 when the callback
\* throws because it reaches a MessageNode (which carries no repo) first.
FindChild(old, p) ==
    LET hit(j) == old[j].kind = "repo" /\ old[j].path = p
        bad(j) == old[j].kind = "message"
        stop   == {j \in 1..Len(old) : hit(j) \/ bad(j)}
    IN  IF stop = {} THEN 0
        ELSE LET j == CHOOSE k \in stop : \A l \in stop : k <= l
             IN  IF bad(j) THEN -1 ELSE j

\* refresh, lines 56-67
RECURSIVE Reconcile(_, _, _, _)
Reconcile(repos, i, old, acc) ==
    IF i > Len(repos) THEN acc
    ELSE LET f == FindChild(old, repos[i].path)
         IN  IF f = -1 THEN [acc EXCEPT !.threw = TRUE]
             ELSE IF f > 0
             THEN Reconcile(repos, i + 1, old,
                            [acc EXCEPT !.list = Append(@, old[f]),
                                        !.refreshed = @ \cup {old[f].id}])
             ELSE Reconcile(repos, i + 1, old,
                            [acc EXCEPT !.list = Append(@, RepositoryNode(acc.next, repos[i])),
                                        !.next = @ + 1])

Range(s) == {s[j] : j \in 1..Len(s)}
Ids(s)   == {s[j].id : j \in 1..Len(s)}

\* refresh, lines 69-73: dispose() once per list position not carried over
DisposeRemoved(old, new, dc) ==
    [id \in NodeIds |->
        dc[id] + Cardinality({j \in 1..Len(old) : old[j].id = id /\ old[j] \notin Range(new)})]

\* ------------------------------------------------- explorer configuration
Locations == {"gitlens", "explorer"}
Config    == [enabled : BOOLEAN, location : Locations, autoRefresh : BOOLEAN]
\* sections whose change passes the gate of lines 92-99 without touching a
\* setting the handler reads ("none": an event for another extension section)
OtherChange == {"none", "gitExplorer", "explorers", "defaultGravatarsStyle"}
Reasons   == {"Command", "ConfigurationChanged", "RepoChanged", "AutoRefreshChanged"}
Targets   == {"root", "paged", "plain"}      \* nodes handed to refreshNode
Increments == {0, 20}                         \* args.maxCount values supplied
NoArgs    == [given |-> FALSE, maxCount |-> <<>>]
Args      == {NoArgs} \cup {[given |-> TRUE, maxCount |-> m] :
                              m \in {<<>>} \cup {<<i>> : i \in Increments}}

BoolStr(b) == IF b THEN "true" ELSE "false"
\* workspaceState.get<boolean>(WorkspaceState.GitExplorerAutoRefresh, true)
WsGet(ws) == IF ws = Unset THEN TRUE ELSE ws = "true"

\* node.supportsPaging
SupportsPaging(n) == n = "paged"

\* mutant: the cursor starts from zero instead of from the increment
NextMaxCountFromZero(old, args) ==
    IF args.maxCount = <<>> \/ args.maxCount[1] = 0 THEN args.maxCount
    ELSE <<(IF old = <<>> THEN 0 ELSE old[1]) + args.maxCount[1]>>

\* refreshNode, lines 200-207: the new paging cursor
NextMaxCount(old, args) ==
    IF args.maxCount = <<>> \/ args.maxCount[1] = 0 THEN args.maxCount
    ELSE <<(IF old = <<>> \/ old[1] = 0 THEN args.maxCount[1] ELSE old[1]) + args.maxCount[1]>>

\* mutant: the workspace flag is not consulted
SubscribesIgnoringWorkspace(enabled, workspaceEnabled) == enabled

\* setAutoRefresh, lines 224, 238: whether the backend event is subscribed to
Subscribes(enabled, workspaceEnabled) == enabled /\ workspaceEnabled

\* mutant: any override counts as toggled
ToggledAlways(workspaceEnabled) == TRUE

\* setAutoRefresh, line 232
Toggled(workspaceEnabled) == workspaceEnabled

\* mutant: the root is constructed anew on every call
SetRootAlwaysNew(r) == r + 1

\* setRoot, lines 279-283
SetRoot(r) == IF r = 0 THEN 1 ELSE r

\* ------------------------------------------------------- git backend (env)
ValidBackend(S) ==
    \A r, q \in S : r # q => (r.path # q.path /\ r.index # q.index)

AddRepository(r) ==
    /\ ValidBackend(backend \cup {r})
    /\ r \notin backend
    /\ backend' = backend \cup {r}
    /\ UNCHANGED <<children, nextId, disposeCount, childRefreshed, gcAwait, rfAwait, gcRet, lastRefresh>>
    /\ UNCHANGED varsE
    /\ UNCHANGED <<effects, varsO>>

RemoveRepository(r) ==
    /\ r \in backend
    /\ backend' = backend \ {r}
    /\ UNCHANGED <<children, nextId, disposeCount, childRefreshed, gcAwait, rfAwait, gcRet, lastRefresh>>
    /\ UNCHANGED varsE
    /\ UNCHANGED <<effects, varsO>>

SetClosed(r) ==
    /\ r \in backend
    /\ backend' = (backend \ {r}) \cup {[r EXCEPT !.closed = ~r.closed]}
    /\ UNCHANGED <<children, nextId, disposeCount, childRefreshed, gcAwait, rfAwait, gcRet, lastRefresh>>
    /\ UNCHANGED varsE
    /\ UNCHANGED <<effects, varsO>>

\* ------------------------------------------- RepositoriesNode.getChildren
\* lines 23, 42: with a cache the call returns this.children itself and
\* changes nothing
GetChildrenCached ==
    /\ children # Undef
    /\ UNCHANGED varsR
    /\ UNCHANGED varsE
    /\ UNCHANGED <<effects, varsO>>

\* lines 23-24: no cache, the backend is queried and the call suspends
GetChildrenCall ==
    /\ children = Undef
    /\ gcAwait + rfAwait < MaxCalls
    /\ gcAwait' = gcAwait + 1
    /\ UNCHANGED <<backend, children, nextId, disposeCount, childRefreshed, rfAwait, gcRet, lastRefresh>>
    /\ UNCHANGED varsE
    /\ UNCHANGED <<effects, varsO>>

\* lines 24-42, after the await
GetChildrenResume ==
    /\ gcAwait > 0
    /\ LET repositories == SortByIndex(backend) IN
       IF Len(repositories) = 0
       THEN /\ nextId <= MaxNodes
            /\ gcRet' = <<MessageNode(nextId)>>
            /\ nextId' = nextId + 1
            /\ UNCHANGED children
       ELSE LET built == BuildChildren(repositories, 1, nextId) IN
            /\ nextId + Len(built) - 1 <= MaxNodes
            /\ children' = built
            /\ nextId' = nextId + Len(built)
            /\ gcRet' = NoRet
    /\ gcAwait' = gcAwait - 1
    /\ UNCHANGED <<backend, disposeCount, childRefreshed, rfAwait, lastRefresh>>
    /\ UNCHANGED varsE
    /\ UNCHANGED <<effects, varsO>>

\* ----------------------------------------------- RepositoriesNode.refresh
\* lines 45-48, up to the await: returns at once without a cache, else
\* queries the backend and suspends
RefreshEntry ==
    /\ gcRet' = NoRet
    /\ IF children = Undef
       THEN /\ lastRefresh' = "ok"
            /\ UNCHANGED rfAwait
       ELSE /\ gcAwait + rfAwait < MaxCalls
            /\ rfAwait' = rfAwait + 1
            /\ UNCHANGED lastRefresh

\* lines 48-75, after the await
RefreshResume ==
    /\ rfAwait > 0
    /\ LET repositories == SortByIndex(backend) IN
       IF Len(repositories) = 0 /\ (children = Undef \/ Len(children) = 0)
       THEN /\ lastRefresh' = "ok"
            /\ childRefreshed' = {}
            /\ UNCHANGED <<children, nextId, disposeCount>>
       ELSE IF Len(repositories) = 0
       THEN /\ nextId <= MaxNodes
            /\ children' = <<MessageNode(nextId)>>
            /\ nextId' = nextId + 1
            /\ lastRefresh' = "ok"
            /\ childRefreshed' = {}
            /\ UNCHANGED disposeCount
       ELSE LET r == Reconcile(repositories, 1, children,
                       [list |-> <<>>, refreshed |-> {}, next |-> nextId, threw |-> FALSE])
            IN  IF r.threw
                THEN /\ lastRefresh' = "threw"
                     /\ childRefreshed' = r.refreshed
                     /\ UNCHANGED <<children, nextId, disposeCount>>
                ELSE /\ r.next - 1 <= MaxNodes
                     /\ children' = r.list
                     /\ nextId' = r.next
                     /\ disposeCount' = DisposeRemoved(children, r.list, disposeCount)
                     /\ childRefreshed' = r.refreshed
                     /\ lastRefresh' = "ok"
    /\ rfAwait' = rfAwait - 1
    /\ gcRet' = NoRet
    /\ UNCHANGED <<backend, gcAwait>>

\* RepositoriesNode.refresh() called on its own (not awaited by a caller)
NodeRefresh ==
    /\ RefreshEntry
    /\ UNCHANGED <<backend, children, nextId, disposeCount, childRefreshed, gcAwait>>
    /\ UNCHANGED varsE
    /\ UNCHANGED <<effects, varsO>>

NodeRefreshResume ==
    /\ exAwait < rfAwait
    /\ RefreshResume
    /\ UNCHANGED varsE
    /\ UNCHANGED <<effects, varsO>>

\* ---------------------------------------------------- GitExplorer.refresh
\* mutant: the notification is emitted before the root's refresh is awaited
ExplorerRefreshFireFirst(reason, rt) ==
    /\ lastReason' = reason
    /\ treeDataFired' = "all"
    /\ IF rt = 0
       THEN UNCHANGED <<exAwait, exReady, rfAwait, gcRet, lastRefresh>>
       ELSE /\ RefreshEntry
            /\ exAwait + exReady < MaxCalls
            /\ IF children = Undef
               THEN exReady' = exReady + 1 /\ UNCHANGED exAwait
               ELSE exAwait' = exAwait + 1 /\ UNCHANGED exReady

\* lines 183-192, up to the await (or to the fire of line 194 without a root)
ExplorerRefresh(reason, rt) ==
    /\ lastReason' = reason
    /\ IF rt = 0
       THEN /\ treeDataFired' = "all"
            /\ UNCHANGED <<exAwait, exReady, rfAwait, gcRet, lastRefresh>>
       ELSE /\ RefreshEntry
            /\ exAwait + exReady < MaxCalls
            /\ IF children = Undef
               THEN exReady' = exReady + 1 /\ UNCHANGED exAwait
               ELSE exAwait' = exAwait + 1 /\ UNCHANGED exReady
            /\ UNCHANGED treeDataFired

NoExplorerRefresh ==
    UNCHANGED <<lastReason, treeDataFired, exAwait, exReady, rfAwait, gcRet, lastRefresh>>

\* the awaited root.refresh() runs to its end (lines 48-75 of the node); a
\* throw rejects the explorer's refresh, which then never reaches line 194
ExplorerRefreshResume ==
    /\ exAwait > 0
    /\ RefreshResume
    /\ exAwait' = exAwait - 1
    /\ exReady' = IF lastRefresh' = "threw" THEN exReady ELSE exReady + 1
    /\ UNCHANGED <<cfg, ctxGitExplorer, varsA, varsT, varsP, lastReason, treeDataFired>>
    /\ UNCHANGED <<effects, varsO>>

\* line 194
ExplorerRefreshFire ==
    /\ exReady > 0
    /\ exReady' = exReady - 1
    /\ treeDataFired' = "all"
    /\ UNCHANGED <<cfg, ctxGitExplorer, varsA, varsT, varsP, varsR, exAwait, lastReason>>
    /\ UNCHANGED <<effects, varsO>>

\* the gitlens.gitExplorer.refresh command
RefreshCommand ==
    /\ ExplorerRefresh("Command", root)
    /\ UNCHANGED <<backend, children, nextId, disposeCount, childRefreshed, gcAwait>>
    /\ UNCHANGED <<cfg, ctxGitExplorer, varsA, varsT, varsP>>
    /\ UNCHANGED <<effects, varsO>>

\* lines 134-138, delivered through an active subscription
OnRepositoriesChanged ==
    /\ activeSubs > 0
    /\ ExplorerRefresh("RepoChanged", root)
    /\ UNCHANGED <<backend, children, nextId, disposeCount, childRefreshed, gcAwait>>
    /\ UNCHANGED <<cfg, ctxGitExplorer, varsA, varsT, varsP>>
    /\ UNCHANGED <<effects, varsO>>

\* ------------------------------------------------ GitExplorer.refreshNode
\* mutant: the node is always reported as the changed element
ChangedElementAlwaysNode(node, rt) == node

\* line 212: node === this._root ? undefined : node ("all": no element)
ChangedElement(node, rt) == IF node = "root" /\ rt # 0 THEN "all" ELSE node

\* lines 197-213
RefreshNode(node, args) ==
    /\ node = "paged" => Len(pagedArgs) < MaxPageCalls
    /\ LET paging == args.given /\ SupportsPaging(node)
           new == IF paging THEN NextMaxCount(maxCount[node], args) ELSE maxCount[node]
       IN  /\ (IF new = <<>> THEN TRUE ELSE new[1] <= MaxCount)
           /\ maxCount' = [maxCount EXCEPT ![node] = new]
    /\ pagedArgs' = IF node = "paged" THEN Append(pagedArgs, args) ELSE pagedArgs
    /\ IF node = "root" /\ root # 0
       THEN RefreshEntry
       ELSE UNCHANGED <<rfAwait, gcRet, lastRefresh>>
    /\ treeDataFired' = ChangedElement(node, root)
    /\ UNCHANGED <<backend, children, nextId, disposeCount, childRefreshed, gcAwait>>
    /\ UNCHANGED <<cfg, ctxGitExplorer, varsA, varsT, exAwait, exReady, lastReason>>
    /\ UNCHANGED <<effects, varsO>>

\* ---------------------------------------------- GitExplorer.setAutoRefresh
\* lines 218-221
DisposeAutoRefresh == IF autoRefreshDisposable THEN activeSubs - 1 ELSE activeSubs

\* setAutoRefresh(enabled) without override: lines 217-249 run without
\* suspending; toggled stays false, so line 247 is not reached
SetAutoRefreshDefault(enabled) ==
    LET workspaceEnabled == WsGet(wsAutoRefresh)
        subscribe == Subscribes(enabled, workspaceEnabled)
    IN  /\ subscribe => DisposeAutoRefresh < MaxSubs
        /\ activeSubs' = DisposeAutoRefresh + (IF subscribe THEN 1 ELSE 0)
        /\ autoRefreshDisposable' = subscribe
        /\ ctxAutoRefresh' = (enabled /\ workspaceEnabled)
        /\ sarOverlap' = (sarOverlap \/ sarAwait[TRUE] + sarAwait[FALSE] > 0)
        /\ UNCHANGED <<wsAutoRefresh, sarAwait>>

\* the setAutoRefreshToOn / setAutoRefreshToOff commands (lines 70-79):
\* setAutoRefresh(config.autoRefresh, w) up to the await of line 233, or to
\* its end when the global setting is off
SetAutoRefreshCommand(w) ==
    /\ activeSubs' = DisposeAutoRefresh
    /\ autoRefreshDisposable' = FALSE
    /\ sarOverlap' = (sarOverlap \/ sarAwait[TRUE] + sarAwait[FALSE] > 0)
    /\ IF cfg.autoRefresh
       THEN /\ sarAwait[w] < MaxCalls
            /\ sarAwait' = [sarAwait EXCEPT ![w] = @ + 1]
            /\ UNCHANGED ctxAutoRefresh
       ELSE /\ ctxAutoRefresh' = FALSE
            /\ UNCHANGED sarAwait
    /\ UNCHANGED <<wsAutoRefresh, cfg, ctxGitExplorer, varsT, varsX, varsP, varsR>>
    /\ UNCHANGED <<effects, varsO>>

\* lines 233-248, after the await (enabled was true at the call)
SetAutoRefreshResume(w) ==
    /\ sarAwait[w] > 0
    /\ sarAwait' = [sarAwait EXCEPT ![w] = @ - 1]
    /\ wsAutoRefresh' = BoolStr(w)
    /\ Subscribes(TRUE, w) => activeSubs < MaxSubs
    /\ activeSubs' = activeSubs + (IF Subscribes(TRUE, w) THEN 1 ELSE 0)
    /\ autoRefreshDisposable' = (IF Subscribes(TRUE, w) THEN TRUE ELSE autoRefreshDisposable)
    /\ ctxAutoRefresh' = w
    /\ IF Toggled(w) THEN ExplorerRefresh("AutoRefreshChanged", root) ELSE NoExplorerRefresh
    /\ UNCHANGED <<backend, children, nextId, disposeCount, childRefreshed, gcAwait>>
    /\ UNCHANGED <<sarOverlap, cfg, ctxGitExplorer, varsT, varsP>>
    /\ UNCHANGED <<effects, varsO>>

\* --------------------------------------- GitExplorer.onConfigurationChanged
\* mutant: the previous handle is not disposed before the new one is created
RebuildTreeKeepingOld(new) ==
    /\ nextTree <= MaxTrees
    /\ activeTrees' = activeTrees \cup {nextTree}
    /\ root' = SetRoot(root)
    /\ tree' = nextTree
    /\ treeLocation' = new.location
    /\ disposable' = nextTree
    /\ nextTree' = nextTree + 1

\* lines 113-127
RebuildTree(new) ==
    /\ nextTree <= MaxTrees
    /\ activeTrees' = (activeTrees \ {disposable}) \cup {nextTree}
    /\ root' = SetRoot(root)
    /\ tree' = nextTree
    /\ treeLocation' = new.location
    /\ disposable' = nextTree
    /\ nextTree' = nextTree + 1

\* mutant: the tree-view rebuild runs before the auto-refresh effect
ConfigEffectsTreeFirst(initializing, relevant, chEnabled, chLocation, chAutoRefresh, rt) ==
    IF ~initializing /\ ~relevant THEN <<>>
    ELSE (IF initializing \/ chEnabled \/ chLocation THEN <<"context">> ELSE <<>>)
         \o (IF initializing \/ chLocation THEN <<"tree">> ELSE <<>>)
         \o (IF initializing \/ chAutoRefresh THEN <<"autoRefresh">> ELSE <<>>)
         \o (IF ~initializing /\ rt # 0 THEN <<"refresh">> ELSE <<>>)

\* lines 92-131: the calls one run of the handler makes, in order; rt is
\* this._root when line 129 is reached
ConfigEffects(initializing, relevant, chEnabled, chLocation, chAutoRefresh, rt) ==
    IF ~initializing /\ ~relevant THEN <<>>
    ELSE (IF initializing \/ chEnabled \/ chLocation THEN <<"context">> ELSE <<>>)
         \o (IF initializing \/ chAutoRefresh THEN <<"autoRefresh">> ELSE <<>>)
         \o (IF initializing \/ chLocation THEN <<"tree">> ELSE <<>>)
         \o (IF ~initializing /\ rt # 0 THEN <<"refresh">> ELSE <<>>)

\* lines 89-132 for a change event (not the initializing one): the
\* configuration holds `new` when the handler runs
HandleConfigurationChanged(new, other) ==
    LET chEnabled     == new.enabled # cfg.enabled
        chLocation    == new.location # cfg.location
        chAutoRefresh == new.autoRefresh # cfg.autoRefresh
        relevant      == chEnabled \/ chLocation \/ chAutoRefresh \/ other # "none"
    IN  /\ cfg' = new
        /\ IF relevant /\ (chEnabled \/ chLocation)
           THEN ctxGitExplorer' = (IF new.enabled THEN new.location ELSE "false")
           ELSE UNCHANGED ctxGitExplorer
        /\ IF relevant /\ chAutoRefresh
           THEN SetAutoRefreshDefault(new.autoRefresh)
           ELSE UNCHANGED varsA
        /\ IF relevant /\ chLocation
           THEN RebuildTree(new)
           ELSE UNCHANGED varsT
        /\ IF relevant /\ root' # 0
           THEN ExplorerRefresh("ConfigurationChanged", root')
           ELSE NoExplorerRefresh
        /\ UNCHANGED <<backend, children, nextId, disposeCount, childRefreshed, gcAwait>>
        /\ UNCHANGED varsP
        /\ UNCHANGED varsO

\* the handler run for a change event
ConfigurationChanged(new, other) ==
    /\ HandleConfigurationChanged(new, other)
    /\ UNCHANGED effects

\* the handler run for a change event, its calls recorded
ConfigurationChangedLogged(new, other) ==
    /\ HandleConfigurationChanged(new, other)
    /\ effects' = ConfigEffects(FALSE,
                                new # cfg \/ other # "none",
                                new.enabled # cfg.enabled,
                                new.location # cfg.location,
                                new.autoRefresh # cfg.autoRefresh,
                                root')

\* =================================================== LineHoverController
Docs  == {"d1", "d2"}                   \* documents of the text editors
Kinds == {"changes", "details"}         \* hover kinds
Overs == {"annotation", "line"}         \* hovers.currentLine.over
HoversConfig ==
    [enabled : BOOLEAN, currentLineEnabled : BOOLEAN, details : BOOLEAN, changes : BOOLEAN,
     over : Overs, annotationsDetails : BOOLEAN, annotationsChanges : BOOLEAN]
DefaultHovers ==
    [enabled |-> TRUE, currentLineEnabled |-> TRUE, details |-> TRUE, changes |-> TRUE,
     over |-> "annotation", annotationsDetails |-> TRUE, annotationsChanges |-> TRUE]
LinesChangeEvent ==
    [editor : Docs \cup {"none"}, lines : BOOLEAN, pending : BOOLEAN,
     reason : {"editor", "selection"}]

\* mutant: only the global setting is consulted
HoversActiveGlobalOnly(h) == h.enabled

\* line 56
HoversActive(h) == h.enabled /\ h.currentLineEnabled

\* the controller's registrations: the active provider registrations, the
\* ones _hoverProviderDisposable wraps and the document they are keyed to
NoRegistration ==
    [providers |-> [k \in Kinds |-> 0], disposable |-> {}, doc |-> "none"]
Registration ==
    [providers |-> providers, disposable |-> hoverProviderDisposable, doc |-> providerDoc]

\* mutant: the reference is dropped without disposing the registrations
UnregisterWithoutDispose(r) == [r EXCEPT !.disposable = {}]

\* unregister, lines 215-220
Unregister(r) ==
    [r EXCEPT !.providers = [k \in Kinds |-> IF k \in r.disposable THEN @[k] - 1 ELSE @[k]],
              !.disposable = {}]

\* register, lines 188-213
Register(r, editor, h) ==
    LET u == Unregister(r)
        subscriptions == {k \in Kinds : IF k = "changes" THEN h.changes ELSE h.details}
    IN  IF editor = "none" THEN u
        ELSE IF ~h.enabled \/ ~h.currentLineEnabled \/ (~h.details /\ ~h.changes) THEN u
        ELSE [providers  |-> [k \in Kinds |-> u.providers[k] + (IF k \in subscriptions THEN 1 ELSE 0)],
              disposable |-> subscriptions,
              doc        |-> editor]

SetRegistration(r) ==
    /\ \A k \in Kinds : r.providers[k] <= MaxRegs
    /\ providers' = r.providers
    /\ hoverProviderDisposable' = r.disposable
    /\ providerDoc' = r.doc

\* onConfigurationChanged, lines 45-68, for a change event that leaves the
\* configuration at `new`; a disposed controller no longer listens
HoverConfigurationChanged(new) ==
    /\ hovers' = new
    /\ IF ~ctlDisposable
          \/ (new.enabled = hovers.enabled /\ new.currentLineEnabled = hovers.currentLineEnabled)
       THEN UNCHANGED <<providers, providerDoc, hoverProviderDisposable, tracking>>
       ELSE IF HoversActive(new)
       THEN /\ tracking' = TRUE
            /\ SetRegistration(Register(Registration, activeEditor, new))
       ELSE /\ tracking' = FALSE
            /\ SetRegistration(Unregister(Registration))
    /\ UNCHANGED <<activeEditor, ctlDisposable, debugSessionEndDisposable, debugEndSubs,
                   linesEvent, debugSessions>>
    /\ UNCHANGED varsHD
    /\ UNCHANGED <<varsR, varsE, effects, varsV>>

\* the host switches the active text editor
SetActiveEditor(d) ==
    /\ activeEditor # d
    /\ activeEditor' = d
    /\ UNCHANGED <<hovers, providers, providerDoc, hoverProviderDisposable, tracking,
                   ctlDisposable, debugSessionEndDisposable, debugEndSubs, linesEvent,
                   debugSessions>>
    /\ UNCHANGED varsHD
    /\ UNCHANGED <<varsR, varsE, effects, varsV>>

\* onActiveLinesChanged, lines 74-84, delivered through the subscription
\* handed to the line tracker
OnActiveLinesChanged(e) ==
    /\ tracking
    /\ linesEvent' = <<e>>
    /\ IF e.pending \/ e.reason # "editor"
       THEN UNCHANGED <<providers, providerDoc, hoverProviderDisposable>>
       ELSE IF e.editor = "none" \/ ~e.lines
       THEN SetRegistration(Unregister(Registration))
       ELSE SetRegistration(Register(Registration, e.editor, hovers))
    /\ UNCHANGED <<hovers, activeEditor, tracking, ctlDisposable, debugSessionEndDisposable,
                   debugEndSubs, debugSessions>>
    /\ UNCHANGED varsHD
    /\ UNCHANGED <<varsR, varsE, effects, varsV>>

\* dispose, lines 36-43: line 39 disposes the session-end subscription but
\* leaves the field set
HoverDispose ==
    /\ ctlDisposable
    /\ SetRegistration(Unregister(Registration))
    /\ debugEndSubs' = IF debugSessionEndDisposable /\ debugEndSubs > 0
                       THEN debugEndSubs - 1 ELSE debugEndSubs
    /\ tracking' = FALSE
    /\ ctlDisposable' = FALSE
    /\ UNCHANGED <<hovers, activeEditor, debugSessionEndDisposable, linesEvent, debugSessions>>
    /\ UNCHANGED varsHD
    /\ UNCHANGED <<varsR, varsE, effects, varsV>>

\* the host starts a debug session; onDebugSessionStarted, lines 86-90, is
\* delivered while _disposable is alive
OnDebugSessionStarted ==
    /\ debugSessions < MaxSessions
    /\ debugSessions' = debugSessions + 1
    /\ IF ctlDisposable /\ ~debugSessionEndDisposable
       THEN debugSessionEndDisposable' = TRUE /\ debugEndSubs' = debugEndSubs + 1
       ELSE UNCHANGED <<debugSessionEndDisposable, debugEndSubs>>
    /\ UNCHANGED <<hovers, activeEditor, providers, providerDoc, hoverProviderDisposable,
                   tracking, ctlDisposable, linesEvent>>
    /\ UNCHANGED varsHD
    /\ UNCHANGED <<varsR, varsE, effects, varsV>>

\* a debug session of the host terminates; onDebugSessionEnded, lines
\* 92-97, is delivered through the session-end subscription
OnDebugSessionEnded ==
    /\ debugSessions > 0
    /\ debugSessions' = debugSessions - 1
    /\ IF debugEndSubs > 0 /\ debugSessionEndDisposable
       THEN debugSessionEndDisposable' = FALSE /\ debugEndSubs' = debugEndSubs - 1
       ELSE UNCHANGED <<debugSessionEndDisposable, debugEndSubs>>
    /\ UNCHANGED <<hovers, activeEditor, providers, providerDoc, hoverProviderDisposable,
                   tracking, ctlDisposable, linesEvent>>
    /\ UNCHANGED varsHD
    /\ UNCHANGED <<varsR, varsE, effects, varsV>>

\* get debugging, lines 70-72
Debugging == debugSessionEndDisposable

\* ------------------------------------------------------- hover providers
\* Number.MAX_SAFE_INTEGER (2^53 - 1), cut to the largest integer TLC holds:
\* a character beyond the end of every line
MaxSafeInteger == 2147483647
LineLen    == 1                         \* length of the hovered line
Characters == 0..LineLen                \* position.character
\* blame commits of the line tracker's states
Commits ==
    { [sha |-> "s1", isUncommitted |-> FALSE, previousSha |-> "p1", previousFileName |-> "f1"],
      [sha |-> "s2", isUncommitted |-> FALSE, previousSha |-> "undefined", previousFileName |-> "undefined"],
      [sha |-> "0000", isUncommitted |-> TRUE, previousSha |-> "p1", previousFileName |-> "f1"] }
\* Container.git.getLogCommitForFile(repoPath, fsPath, {ref: sha}), when it finds one
GetLogCommitForFile(sha) == [sha |-> sha, previousSha |-> "p9", previousFileName |-> "f9"]
\* a state of the line tracker: its commit and its logCommit, each <<>> when undefined
LineStates == {[commit |-> c, logCommit |-> <<>>] : c \in {<<>>} \cup {<<k>> : k \in Commits}}

\* document.validateRange clamps the character to the line
ValidateRangeStart(c) == IF c > LineLen THEN LineLen ELSE c

\* mutant: a debug session forces the whole line
WholeLineWhileDebugging(debugging, over) == IF debugging THEN TRUE ELSE over = "line"

\* lines 114, 170
WholeLine(debugging, over) == IF debugging THEN FALSE ELSE over = "line"

\* lines 114-121, 170-177: the start character of the hover's range, and
\* the check that suppresses the hover (1: annotations suspended, first
\* return; 2: position not at the range start, second return; 0: none)
HoverRange(debugging, over, susp, char) ==
    LET wholeLine == WholeLine(debugging, over)
        start     == ValidateRangeStart(IF wholeLine THEN 0 ELSE MaxSafeInteger)
    IN  [start |-> start,
         suppressed |-> IF ~wholeLine /\ susp THEN 1
                        ELSE IF ~wholeLine /\ start # char THEN 2
                        ELSE 0]

\* mutant: whole-file annotations never suppress the details hover
DetailsSuppressedNever(annotationType, annotationsDetails) == FALSE

\* line 112
DetailsSuppressed(annotationType, annotationsDetails) ==
    annotationType # "undefined" /\ annotationsDetails

\* mutant: the fetched commit keeps its own linkage
UpgradeKeepingOwn(fetched, commit) == fetched

\* lines 129-132
Upgrade(fetched, commit) ==
    IF fetched = <<>> THEN <<>>
    ELSE <<[fetched[1] EXCEPT !.previousSha = commit.previousSha,
                              !.previousFileName = commit.previousFileName]>>

\* no provideHover call is in flight and none has returned
HvIdle ==
    [pc |-> "idle", kind |-> "none", char |-> 0, commit |-> <<>>, stale |-> FALSE,
     objLog |-> <<>>, start |-> 0, logCommit |-> <<>>, fetched |-> FALSE,
     result |-> "none", at |-> 0, message |-> "none"]
\* the call has returned undefined at source line `at`
Undefined(kind, at) == [HvIdle EXCEPT !.kind = kind, !.result = "undefined", !.at = at]
\* the call has returned, at source line `at`, a Hover with its range start
\* and the commit its message was made from
Hover(kind, at, start, message) ==
    [HvIdle EXCEPT !.kind = kind, !.result = "hover", !.at = at, !.start = start,
                   !.message = message]
Suspend(kind, char, commit) ==
    [HvIdle EXCEPT !.pc = "annotations", !.kind = kind, !.char = char, !.commit = commit]

\* lines 104-108, 158-162
LineCommit == IF ~lineTracked \/ lineState = <<>> THEN <<>> ELSE lineState[1].commit

\* logCommit of the lineState object captured at line 106: the tracker's
\* current state, or the replaced object the call still holds
CapturedLog == IF hv.stale THEN hv.objLog ELSE lineState[1].logCommit

\* provideDetailsHover, lines 104-111, up to the await of getAnnotationType
DetailsHoverCall(char) ==
    /\ hv.pc = "idle"
    /\ providers["details"] > 0
    /\ hv' = IF ~lineTracked THEN Undefined("details", 104)
             ELSE IF LineCommit = <<>> THEN Undefined("details", 108)
             ELSE Suspend("details", char, LineCommit)
    /\ UNCHANGED <<fileAnnotations, suspended, lineTracked, lineState>>
    /\ UNCHANGED varsHR
    /\ UNCHANGED <<varsR, varsE, effects, varsV>>

\* lines 111-126, from the annotation type to the await of the log commit
DetailsHoverAnnotations ==
    /\ hv.pc = "annotations"
    /\ hv.kind = "details"
    /\ LET range == HoverRange(Debugging, hovers.over, suspended, hv.char) IN
       hv' = IF DetailsSuppressed(fileAnnotations, hovers.annotationsDetails)
             THEN Undefined("details", 112)
             ELSE IF range.suppressed = 1 THEN Undefined("details", 116)
             ELSE IF range.suppressed = 2 THEN Undefined("details", 121)
             ELSE IF CapturedLog = <<>> /\ ~hv.commit[1].isUncommitted
             THEN [hv EXCEPT !.pc = "log", !.start = range.start, !.fetched = TRUE]
             ELSE [hv EXCEPT !.pc = "document", !.start = range.start, !.logCommit = CapturedLog]
    /\ UNCHANGED <<fileAnnotations, suspended, lineTracked, lineState>>
    /\ UNCHANGED varsHR
    /\ UNCHANGED <<varsR, varsE, effects, varsV>>

\* lines 126-140: the backend answers, with the log commit or with undefined
DetailsHoverLog(found) ==
    /\ hv.pc = "log"
    /\ LET fetched   == IF found THEN <<GetLogCommitForFile(hv.commit[1].sha)>> ELSE <<>>
           logCommit == Upgrade(fetched, hv.commit[1])
       IN
       /\ hv' = [hv EXCEPT !.pc = "document", !.logCommit = logCommit,
                           !.objLog = IF hv.stale /\ logCommit # <<>> THEN logCommit ELSE @]
       /\ lineState' = IF logCommit # <<>> /\ ~hv.stale
                       THEN <<[lineState[1] EXCEPT !.logCommit = logCommit]>>
                       ELSE lineState
    /\ UNCHANGED <<fileAnnotations, suspended, lineTracked>>
    /\ UNCHANGED varsHR
    /\ UNCHANGED <<varsR, varsE, effects, varsV>>

\* lines 140-146: Container.tracker.get(document) answers
DetailsHoverDocument(trackedDocument) ==
    /\ hv.pc = "document"
    /\ hv.kind = "details"
    /\ hv' = IF ~trackedDocument THEN Undefined("details", 141)
             ELSE [hv EXCEPT !.pc = "remotes"]
    /\ UNCHANGED <<fileAnnotations, suspended, lineTracked, lineState>>
    /\ UNCHANGED varsHR
    /\ UNCHANGED <<varsR, varsE, effects, varsV>>

\* lines 143-150: getRemotes answers, the hover is built from logCommit || commit
DetailsHoverReturn ==
    /\ hv.pc = "remotes"
    /\ hv' = Hover("details", 150, hv.start, IF hv.logCommit # <<>> THEN "log" ELSE "blame")
    /\ UNCHANGED <<fileAnnotations, suspended, lineTracked, lineState>>
    /\ UNCHANGED varsHR
    /\ UNCHANGED <<varsR, varsE, effects, varsV>>

\* provideChangesHover, lines 158-179, up to its first await
ChangesHoverCall(char) ==
    /\ hv.pc = "idle"
    /\ providers["changes"] > 0
    /\ LET range == HoverRange(Debugging, hovers.over, suspended, char) IN
       hv' = IF ~lineTracked THEN Undefined("changes", 158)
             ELSE IF LineCommit = <<>> THEN Undefined("changes", 162)
             ELSE IF hovers.annotationsChanges THEN Suspend("changes", char, LineCommit)
             ELSE IF range.suppressed = 1 THEN Undefined("changes", 172)
             ELSE IF range.suppressed = 2 THEN Undefined("changes", 177)
             ELSE [Suspend("changes", char, LineCommit) EXCEPT !.pc = "document",
                                                               !.start = range.start]
    /\ UNCHANGED <<fileAnnotations, suspended, lineTracked, lineState>>
    /\ UNCHANGED varsHR
    /\ UNCHANGED <<varsR, varsE, effects, varsV>>

\* lines 166-179, after the await of getAnnotationType
ChangesHoverAnnotations ==
    /\ hv.pc = "annotations"
    /\ hv.kind = "changes"
    /\ LET range == HoverRange(Debugging, hovers.over, suspended, hv.char) IN
       hv' = IF fileAnnotations # "undefined" THEN Undefined("changes", 167)
             ELSE IF range.suppressed = 1 THEN Undefined("changes", 172)
             ELSE IF range.suppressed = 2 THEN Undefined("changes", 177)
             ELSE [hv EXCEPT !.pc = "document", !.start = range.start]
    /\ UNCHANGED <<fileAnnotations, suspended, lineTracked, lineState>>
    /\ UNCHANGED varsHR
    /\ UNCHANGED <<varsR, varsE, effects, varsV>>

\* lines 179-182: Container.tracker.get(document) answers
ChangesHoverDocument(trackedDocument) ==
    /\ hv.pc = "document"
    /\ hv.kind = "changes"
    /\ hv' = IF ~trackedDocument THEN Undefined("changes", 180)
             ELSE [hv EXCEPT !.pc = "changes"]
    /\ UNCHANGED <<fileAnnotations, suspended, lineTracked, lineState>>
    /\ UNCHANGED varsHR
    /\ UNCHANGED <<varsR, varsE, effects, varsV>>

\* lines 182-185: Annotations.changesHover answers, with or without a message
ChangesHoverReturn(hoverMessage) ==
    /\ hv.pc = "changes"
    /\ hv' = IF ~hoverMessage THEN Undefined("changes", 183)
             ELSE Hover("changes", 185, hv.start, "changes")
    /\ UNCHANGED <<fileAnnotations, suspended, lineTracked, lineState>>
    /\ UNCHANGED varsHR
    /\ UNCHANGED <<varsR, varsE, effects, varsV>>

\* the annotation controller shows or clears whole-file annotations
SetFileAnnotations(t) ==
    /\ fileAnnotations # t
    /\ fileAnnotations' = t
    /\ UNCHANGED <<suspended, lineTracked, lineState, hv>>
    /\ UNCHANGED varsHR
    /\ UNCHANGED <<varsR, varsE, effects, varsV>>

\* the line annotation controller suspends or resumes
SetSuspended(b) ==
    /\ suspended # b
    /\ suspended' = b
    /\ UNCHANGED <<fileAnnotations, lineTracked, lineState, hv>>
    /\ UNCHANGED varsHR
    /\ UNCHANGED <<varsR, varsE, effects, varsV>>

\* the line tracker replaces the state of the line; a call in flight keeps
\* the object it read at line 106
LineTrackerUpdate(tracked, st) ==
    /\ <<tracked, st>> # <<lineTracked, lineState>>
    /\ ~tracked => st = <<>>
    /\ lineTracked' = tracked
    /\ lineState' = st
    /\ hv' = IF hv.pc = "idle" \/ hv.stale THEN hv
             ELSE [hv EXCEPT !.stale = TRUE, !.objLog = lineState[1].logCommit]
    /\ UNCHANGED <<fileAnnotations, suspended>>
    /\ UNCHANGED varsHR
    /\ UNCHANGED <<varsR, varsE, effects, varsV>>

\* the controller after its constructor, lines 26-34
HoverConstructed ==
    /\ ctlDisposable = TRUE
    /\ debugSessionEndDisposable = FALSE
    /\ debugEndSubs = 0
    /\ debugSessions = 0
    /\ linesEvent = <<>>
    /\ tracking = HoversActive(hovers)
    /\ LET r == IF HoversActive(hovers)
                THEN Register(NoRegistration, activeEditor, hovers)
                ELSE Unregister(NoRegistration)
       IN  /\ providers = r.providers
           /\ hoverProviderDisposable = r.disposable
           /\ providerDoc = r.doc

\* no hover has been asked for
HoverIdle ==
    /\ fileAnnotations = "undefined"
    /\ suspended = FALSE
    /\ lineTracked = FALSE
    /\ lineState = <<>>
    /\ hv = HvIdle

\* ================================================================ activate
GitLensVersion == <<8, 0, 0>>           \* gitlens.packageJSON.version, as <<major, minor, patch>>
\* globalState[GitLensVersion] as Versions.fromString reads it
PreviousVersions == {<<6, 1, 2>>, <<7, 0, 0>>, <<7, 1, 0>>, <<7, 1, 1>>, <<8, 0, 0>>}
Tri == {"undefined", "true", "false"}   \* boolean | undefined
Not(v) == IF v = "true" THEN "false" ELSE "true"
SuppressedMessages == {"CommitHasNoPreviousCommitWarning", "UpdateNotice"}
NoMessages == [m \in SuppressedMessages |-> "undefined"]
Components ==
    {"GitService", "GitContextTracker", "AnnotationController", "CurrentLineController",
     "CodeLensController", "GitContentProvider", "GitRevisionCodeLensProvider",
     "ExplorerCommands", "GitExplorer", "ResultsExplorer", "Keyboard", "commands"}
\* messages of the exceptions GitService.initialize rejects with, in fragments
ErrorMessages ==
    { <<"Unable to find git">>,
      <<"Error: ", "Unable to find git", " in the PATH">>,
      <<"spawn git EACCES">> }
Includes(message, fragment) == \E i \in 1..Len(message) : message[i] = fragment

\* Versions.compare
VersionsCompare(v1, v2) ==
    IF v1[1] # v2[1] THEN (IF v1[1] > v2[1] THEN 1 ELSE -1)
    ELSE IF v1[2] # v2[2] THEN (IF v1[2] > v2[2] THEN 1 ELSE -1)
    ELSE IF v1[3] # v2[3] THEN (IF v1[3] > v2[3] THEN 1 ELSE -1)
    ELSE 0

\* mutant: the failure is swallowed
LoggerErrorSwallowed(log, ex, caller) == log

\* Logger.error(ex, caller)
LoggerError(log, ex, caller) == Append(log, [ex |-> ex, caller |-> caller])

\* what activate() and migrateSettings() read and write after line 266
Activation ==
    [actPc |-> actPc, errorLog |-> errorLog, storedVersion |-> storedVersion,
     constructed |-> constructed, suppressedFlags |-> suppressedFlags, messages |-> messages,
     closeOnFocusOut |-> closeOnFocusOut, updating |-> updating]
SetActivation(st) ==
    /\ actPc' = st.actPc
    /\ errorLog' = st.errorLog
    /\ storedVersion' = st.storedVersion
    /\ constructed' = st.constructed
    /\ suppressedFlags' = st.suppressedFlags
    /\ messages' = st.messages
    /\ closeOnFocusOut' = st.closeOnFocusOut
    /\ updating' = st.updating

\* activate, lines 279-320, once migrateSettings has returned
Activated(st) ==
    [st EXCEPT !.actPc = "activated", !.storedVersion = <<GitLensVersion>>,
               !.constructed = Components, !.updating = <<>>]

\* migrateSettings, lines 357-369, up to its await
MigrateCloseOnFocusOut(st, previous) ==
    LET Update(target) ==
            [st EXCEPT !.actPc = "updateCloseOnFocusOut",
                       !.updating = <<[target |-> target, messages |-> st.messages,
                                       value |-> Not(st.closeOnFocusOut[target])]>>]
    IN  IF VersionsCompare(previous, <<7, 1, 0>>) # 1
        THEN IF st.closeOnFocusOut.globalValue # "undefined" THEN Update("globalValue")
             ELSE IF st.closeOnFocusOut.workspaceFolderValue # "undefined"
             THEN Update("workspaceFolderValue")
             ELSE Activated(st)
        ELSE Activated(st)

\* migrateSettings, lines 326-350, up to its await; the return of line 348
\* leaves the function
MigrateSettings(st, previousVersion) ==
    IF previousVersion = <<>> THEN Activated(st)
    ELSE IF VersionsCompare(previousVersion[1], <<6, 1, 2>>) # 1
    THEN LET migrated == \E m \in SuppressedMessages : st.suppressedFlags[m] # "undefined"
             merged   == [m \in SuppressedMessages |->
                             IF st.suppressedFlags[m] # "undefined"
                             THEN st.suppressedFlags[m] ELSE st.messages[m]]
             cleared  == [st EXCEPT !.suppressedFlags = NoMessages]
         IN  IF ~migrated THEN Activated(cleared)
             ELSE [cleared EXCEPT !.actPc = "updateMessages",
                                  !.updating = <<[target |-> "globalValue", messages |-> merged,
                                                  value |-> "undefined"]>>]
    ELSE MigrateCloseOnFocusOut(st, previousVersion[1])

\* activate, lines 244-256, up to the await of GitService.initialize
Activate ==
    /\ actPc = "idle"
    /\ actPc' = "initialize"
    /\ UNCHANGED <<initError, errorLog, errorsShown, ctxEnabled, storedVersion, constructed,
                   suppressedFlags, messages, closeOnFocusOut, updating>>
    /\ UNCHANGED <<varsR, varsE, effects, varsH>>

\* lines 258-264: GitService.initialize rejects with ex
InitializeRejected(ex) ==
    /\ actPc = "initialize"
    /\ initError' = ex
    /\ errorLog' = LoggerError(errorLog, ex, "activate")
    /\ IF Includes(ex, "Unable to find git")
       THEN /\ errorsShown' = errorsShown + 1
            /\ actPc' = "showErrorMessage"
            /\ UNCHANGED ctxEnabled
       ELSE /\ ctxEnabled' = "false"
            /\ actPc' = "failed"
            /\ UNCHANGED errorsShown
    /\ UNCHANGED <<storedVersion, constructed, suppressedFlags, messages, closeOnFocusOut,
                   updating>>
    /\ UNCHANGED <<varsR, varsE, effects, varsH>>

\* lines 261-264: the error message is dismissed
ErrorMessageDismissed ==
    /\ actPc = "showErrorMessage"
    /\ ctxEnabled' = "false"
    /\ actPc' = "failed"
    /\ UNCHANGED <<initError, errorLog, errorsShown, storedVersion, constructed,
                   suppressedFlags, messages, closeOnFocusOut, updating>>
    /\ UNCHANGED <<varsR, varsE, effects, varsH>>

\* lines 267-278: GitService.initialize resolves
InitializeResolved ==
    /\ actPc = "initialize"
    /\ SetActivation(MigrateSettings(Activation, storedVersion))
    /\ UNCHANGED <<initError, errorsShown, ctxEnabled>>
    /\ UNCHANGED <<varsR, varsE, effects, varsH>>

\* lines 350-357: the update of advanced.messages settles; a rejection is
\* caught at line 352
MessagesUpdated(ok) ==
    /\ actPc = "updateMessages"
    /\ LET st == IF ok THEN [Activation EXCEPT !.messages = updating[1].messages]
                 ELSE [Activation EXCEPT !.errorLog =
                          LoggerError(@, <<"update">>, "migrateSettings - messages")]
       IN  SetActivation(MigrateCloseOnFocusOut(st, storedVersion[1]))
    /\ UNCHANGED <<initError, errorsShown, ctxEnabled>>
    /\ UNCHANGED <<varsR, varsE, effects, varsH>>

\* lines 363-373: the update of closeOnFocusOut settles; a rejection is
\* caught at line 371
CloseOnFocusOutUpdated(ok) ==
    /\ actPc = "updateCloseOnFocusOut"
    /\ LET st == IF ok
                 THEN [Activation EXCEPT !.closeOnFocusOut[updating[1].target] = updating[1].value]
                 ELSE [Activation EXCEPT !.errorLog = LoggerError(@, <<"update">>, "migrateSettings")]
       IN  SetActivation(Activated(st))
    /\ UNCHANGED <<initError, errorsShown, ctxEnabled>>
    /\ UNCHANGED <<varsR, varsE, effects, varsH>>

\* the extension before activate() is called
Inactive ==
    /\ actPc = "idle"
    /\ initError = <<>>
    /\ errorLog = <<>>
    /\ errorsShown = 0
    /\ ctxEnabled = "unset"
    /\ storedVersion = <<>>
    /\ constructed = {}
    /\ suppressedFlags = NoMessages
    /\ messages = NoMessages
    /\ closeOnFocusOut = [globalValue |-> "undefined", workspaceFolderValue |-> "undefined"]
    /\ updating = <<>>

\* ---------------------------------------------------------- specification
\* the RepositoriesNode before its first call
NodeConstructed ==
    /\ children = Undef
    /\ nextId = 1
    /\ disposeCount = [id \in NodeIds |-> 0]
    /\ childRefreshed = {}
    /\ gcAwait = 0
    /\ rfAwait = 0
    /\ gcRet = NoRet
    /\ lastRefresh = "ok"

\* the GitExplorer after its constructor, lines 50-83: the handler has run
\* for the initializing event
ExplorerConstructed ==
    /\ ctxGitExplorer = (IF cfg.enabled THEN cfg.location ELSE "false")
    /\ autoRefreshDisposable = Subscribes(cfg.autoRefresh, WsGet(wsAutoRefresh))
    /\ activeSubs = (IF autoRefreshDisposable THEN 1 ELSE 0)
    /\ ctxAutoRefresh = (cfg.autoRefresh /\ WsGet(wsAutoRefresh))
    /\ sarAwait = [w \in BOOLEAN |-> 0]
    /\ sarOverlap = FALSE
    /\ root = SetRoot(0)
    /\ tree = 1
    /\ treeLocation = cfg.location
    /\ disposable = 1
    /\ activeTrees = {1}
    /\ nextTree = 2
    /\ exAwait = 0
    /\ exReady = 0
    /\ lastReason = "none"
    /\ treeDataFired = "none"
    /\ maxCount = [n \in Targets |-> <<>>]
    /\ pagedArgs = <<>>
    /\ effects = ConfigEffects(TRUE, TRUE, FALSE, FALSE, FALSE, root)

DefaultConfig == [enabled |-> TRUE, location |-> "gitlens", autoRefresh |-> TRUE]

InitRepos ==
    /\ backend = {}
    /\ NodeConstructed
    /\ cfg = DefaultConfig
    /\ wsAutoRefresh = Unset
    /\ ExplorerConstructed
    /\ hovers = DefaultHovers
    /\ activeEditor = "d1"
    /\ HoverConstructed
    /\ HoverIdle
    /\ Inactive

NextRepos ==
    \/ \E r \in Repository : AddRepository(r)
    \/ \E r \in Repository : RemoveRepository(r)
    \/ \E r \in Repository : SetClosed(r)
    \/ GetChildrenCached
    \/ GetChildrenCall
    \/ GetChildrenResume
    \/ NodeRefresh
    \/ NodeRefreshResume

vars == <<varsR, varsE, effects, varsO>>

SpecRepos == InitRepos /\ [][NextRepos]_vars

InitExplorer ==
    /\ backend = {}
    /\ NodeConstructed
    /\ cfg \in Config
    /\ wsAutoRefresh \in {Unset, "true", "false"}
    /\ ExplorerConstructed
    /\ hovers = DefaultHovers
    /\ activeEditor = "d1"
    /\ HoverConstructed
    /\ HoverIdle
    /\ Inactive

NextExplorer ==
    \/ \E new \in Config, other \in OtherChange : ConfigurationChanged(new, other)
    \/ \E w \in BOOLEAN : SetAutoRefreshCommand(w)
    \/ \E w \in BOOLEAN : SetAutoRefreshResume(w)
    \/ OnRepositoriesChanged
    \/ RefreshCommand
    \/ ExplorerRefreshFire

SpecExplorer == InitExplorer /\ [][NextExplorer]_vars

\* the configuration handler alone, with the calls of each run recorded
NextConfig ==
    \/ \E new \in Config, other \in OtherChange : ConfigurationChangedLogged(new, other)
    \/ ExplorerRefreshFire

SpecConfig == InitExplorer /\ [][NextConfig]_vars

InitPaging ==
    /\ backend = {[path |-> "a", index |-> 0, closed |-> FALSE]}
    /\ NodeConstructed
    /\ cfg = DefaultConfig
    /\ wsAutoRefresh = Unset
    /\ ExplorerConstructed
    /\ hovers = DefaultHovers
    /\ activeEditor = "d1"
    /\ HoverConstructed
    /\ HoverIdle
    /\ Inactive

NextPaging ==
    \/ \E node \in Targets, args \in Args : RefreshNode(node, args)
    \/ NodeRefreshResume
    \/ GetChildrenCached
    \/ GetChildrenCall
    \/ GetChildrenResume

SpecPaging == InitPaging /\ [][NextPaging]_vars

\* the explorer refreshing a root whose children the host has asked for
TreeRepos ==
    {r \in Repository : ~r.closed /\ r.path \in {"a", "b"}
                          /\ r.index = (IF r.path = "a" THEN 0 ELSE 1)}

InitTree ==
    /\ backend = {}
    /\ NodeConstructed
    /\ cfg = DefaultConfig
    /\ wsAutoRefresh = Unset
    /\ ExplorerConstructed
    /\ hovers = DefaultHovers
    /\ activeEditor = "d1"
    /\ HoverConstructed
    /\ HoverIdle
    /\ Inactive

NextTree ==
    \/ \E r \in TreeRepos : AddRepository(r)
    \/ \E r \in TreeRepos : RemoveRepository(r)
    \/ GetChildrenCached
    \/ GetChildrenCall
    \/ GetChildrenResume
    \/ RefreshCommand
    \/ OnRepositoriesChanged
    \/ ExplorerRefreshResume
    \/ ExplorerRefreshFire

SpecTree == InitTree /\ [][NextTree]_vars

\* the same with the continuations scheduled: a settled getRepositories()
\* resumes the refresh awaiting it, and a refresh whose await of the root
\* has returned runs on to line 194
SpecTreeFair ==
    /\ SpecTree
    /\ WF_vars(ExplorerRefreshResume)
    /\ WF_vars(ExplorerRefreshFire)

\* the explorer left as constructed
ExplorerIdle ==
    /\ backend = {}
    /\ NodeConstructed
    /\ cfg = DefaultConfig
    /\ wsAutoRefresh = Unset
    /\ ExplorerConstructed

\* settings the registration of the hover providers depends on
RegistrationConfigs ==
    {h \in HoversConfig : /\ h.over = DefaultHovers.over
                          /\ h.annotationsDetails = DefaultHovers.annotationsDetails
                          /\ h.annotationsChanges = DefaultHovers.annotationsChanges}
\* settings the hover providers read
ProviderConfigs ==
    {h \in HoversConfig : h.enabled /\ h.currentLineEnabled /\ h.details /\ h.changes}

\* the hover controller: registration of its providers
InitHover ==
    /\ ExplorerIdle
    /\ hovers \in {h \in RegistrationConfigs : h.enabled /\ h.currentLineEnabled}
    /\ activeEditor \in Docs \cup {"none"}
    /\ HoverConstructed
    /\ HoverIdle
    /\ Inactive

NextHover ==
    \/ \E new \in RegistrationConfigs : HoverConfigurationChanged(new)
    \/ \E d \in Docs \cup {"none"} : SetActiveEditor(d)
    \/ \E e \in LinesChangeEvent : OnActiveLinesChanged(e)
    \/ OnDebugSessionStarted
    \/ OnDebugSessionEnded
    \/ HoverDispose

SpecHover == InitHover /\ [][NextHover]_vars

\* the hover controller: its two providers answering the host
InitDetails ==
    /\ ExplorerIdle
    /\ hovers \in ProviderConfigs
    /\ activeEditor = "d1"
    /\ HoverConstructed
    /\ HoverIdle
    /\ Inactive

NextDetails ==
    \/ \E new \in ProviderConfigs : HoverConfigurationChanged(new)
    \/ \E t \in {"undefined", "blame"} : SetFileAnnotations(t)
    \/ \E b \in BOOLEAN : SetSuspended(b)
    \/ \E tracked \in BOOLEAN, st \in {<<>>} \cup {<<x>> : x \in LineStates} :
          LineTrackerUpdate(tracked, st)
    \/ OnDebugSessionStarted
    \/ OnDebugSessionEnded
    \/ \E char \in Characters : DetailsHoverCall(char)
    \/ DetailsHoverAnnotations
    \/ \E found \in BOOLEAN : DetailsHoverLog(found)
    \/ \E trackedDocument \in BOOLEAN : DetailsHoverDocument(trackedDocument)
    \/ DetailsHoverReturn
    \/ \E char \in Characters : ChangesHoverCall(char)
    \/ ChangesHoverAnnotations
    \/ \E trackedDocument \in BOOLEAN : ChangesHoverDocument(trackedDocument)
    \/ \E hoverMessage \in BOOLEAN : ChangesHoverReturn(hoverMessage)

SpecDetails == InitDetails /\ [][NextDetails]_vars

\* activation of the extension
InitActivate ==
    /\ ExplorerIdle
    /\ hovers = DefaultHovers
    /\ activeEditor = "d1"
    /\ HoverConstructed
    /\ HoverIdle
    /\ actPc = "idle"
    /\ initError = <<>>
    /\ errorLog = <<>>
    /\ errorsShown = 0
    /\ ctxEnabled = "unset"
    /\ storedVersion \in {<<>>} \cup {<<v>> : v \in PreviousVersions}
    /\ constructed = {}
    /\ suppressedFlags \in [SuppressedMessages -> Tri]
    /\ messages = NoMessages
    /\ closeOnFocusOut \in [globalValue : Tri, workspaceFolderValue : Tri]
    /\ updating = <<>>

NextActivate ==
    \/ Activate
    \/ \E ex \in ErrorMessages : InitializeRejected(ex)
    \/ ErrorMessageDismissed
    \/ InitializeResolved
    \/ \E ok \in BOOLEAN : MessagesUpdated(ok)
    \/ \E ok \in BOOLEAN : CloseOnFocusOutUpdated(ok)

SpecActivate == InitActivate /\ [][NextActivate]_vars

TypeOK ==
    /\ ValidBackend(backend)
    /\ nextId \in 1..(MaxNodes + 1)
    /\ activeSubs \in 0..MaxSubs

\* ================================================================ claims
OpenRepos(S) == {r \in S : ~r.closed}
IndexOf(S, p) == (CHOOSE r \in S : r.path = p).index
RepoChildrenOnly(list) == \A j \in 1..Len(list) : list[j].kind = "repo"
Quiescent == sarAwait[TRUE] + sarAwait[FALSE] = 0
Inc(m) == [given |-> TRUE, maxCount |-> <<m>>]
\* the list the latest getChildren() returned: the cache, or the list of line 25
Returned(cache, own) == IF cache # Undef THEN cache ELSE own

\* ret is one repository child per open repository of S in ascending index
\* order, or the single placeholder when S has no open repository
ChildrenOfOpen(ret, S) ==
    IF OpenRepos(S) = {}
    THEN Len(ret) = 1 /\ ret[1].kind = "message"
    ELSE /\ Len(ret) = Cardinality(OpenRepos(S))
         /\ \A i \in 1..Len(ret) :
               ret[i].kind = "repo" /\ \E r \in OpenRepos(S) : r.path = ret[i].path
         /\ \A i, j \in 1..Len(ret) :
               i < j => IndexOf(S, ret[i].path) < IndexOf(S, ret[j].path)

\* C1: the first getChildren() returns exactly one child per non-closed
\* repository of the fetched set, in ascending index order, and the single
\* 'No repositories found' placeholder iff the set has no open repository.
C1_FirstGetChildren ==
    [][GetChildrenResume => ChildrenOfOpen(Returned(children', gcRet'), backend)]_vars

\* C2: a getChildren() call that follows a completed one, with no refresh
\* and no other call in between, returns the very same sequence and does not
\* query the backend.
C2_GetChildrenIdempotent ==
    [][(Returned(children, gcRet) # NoRet /\ gcAwait = 0) =>
          /\ ~GetChildrenCall
          /\ GetChildrenCached => Returned(children', gcRet') = Returned(children, gcRet)]_vars

\* what one reconciling refresh has to do with the list `old` for the set S
Reconciled(old, S, new, dc, dcNew, refreshed, nid) ==
    /\ Len(new) = Cardinality(S)
    /\ \A i \in 1..Len(new) : new[i].kind = "repo" /\ \E r \in S : r.path = new[i].path
    /\ \A i, j \in 1..Len(new) :
          i < j => IndexOf(S, new[i].path) < IndexOf(S, new[j].path)
    /\ \A i \in 1..Len(new) :
          LET same == {c \in Range(old) : c.path = new[i].path} IN
          IF same # {}
          THEN new[i] \in same /\ new[i].id \in refreshed
          ELSE new[i].id >= nid /\ new[i].id \notin refreshed
    /\ \A i, j \in 1..Len(new) : i # j => new[i].id # new[j].id
    /\ \A c \in Range(old) :
          IF \E r \in S : r.path = c.path
          THEN dcNew[c.id] = dc[c.id]
          ELSE dcNew[c.id] = 1 /\ dc[c.id] = 0

\* C3: a refresh() of a cache of repository children against a non-empty
\* set keeps the instance of every matching child (and refreshes it), builds
\* a new child for every unmatched repository, disposes every unmatched old
\* child exactly once and orders the list by the fresh ascending index.
C3_Reconciliation ==
    [][(RefreshResume /\ children # Undef /\ backend # {} /\ RepoChildrenOnly(children))
          => Reconciled(children, backend, children', disposeCount, disposeCount',
                        childRefreshed', nextId)]_vars

C3_Witness ==
    /\ children # Undef
    /\ lastRefresh = "ok"
    /\ Len(children) = 2
    /\ childRefreshed = {children[1].id}
    /\ children[2].id = 3
    /\ disposeCount[1] = 1

\* C4: after getChildren() or refresh() has run, no cached child references
\* a repository that is closed in the backend's current set.
C4_NoClosedChild ==
    [][(GetChildrenResume \/ RefreshResume) =>
          IF children' = Undef THEN TRUE
          ELSE \A c \in Range(children') : \A r \in backend :
                  (c.kind = "repo" /\ r.path = c.path) => ~r.closed]_vars

\* C5: with a backend whose repositories have pairwise distinct normalized
\* paths, no two children reference the same normalized repository path.
C5_DistinctPaths ==
    children # Undef =>
        \A i, j \in 1..Len(children) :
            (i # j /\ children[i].kind = "repo" /\ children[j].kind = "repo")
                => children[i].path # children[j].path

C5_Witness ==
    /\ children # Undef
    /\ Len(children) = 2
    /\ lastRefresh = "ok"
    /\ childRefreshed = Ids(children)

RECURSIVE SumArgs(_)
SumArgs(h) == IF h = <<>> THEN 0 ELSE Head(h).maxCount[1] + SumArgs(Tail(h))
AllPositive(h) ==
    \A k \in 1..Len(h) : h[k].given /\ h[k].maxCount # <<>> /\ h[k].maxCount[1] > 0

\* C6 as stated: two {maxCount: 20} calls from no prior cursor leave 40, a
\* following {maxCount: 0} resets to 0, other nodes keep their cursor.
C6_PagingAsStated ==
    /\ pagedArgs = <<Inc(20), Inc(20)>> => maxCount["paged"] = <<40>>
    /\ pagedArgs = <<Inc(20), Inc(20), Inc(0)>> => maxCount["paged"] = <<0>>
    /\ maxCount["plain"] = <<>>
    /\ maxCount["root"] = <<>>

\* C6 amended: the first increment is counted twice (the cursor starts from
\* the increment itself), so two {maxCount: 20} calls leave 60; a zero or
\* missing maxCount resets; calls without args and nodes without paging
\* leave the cursor alone.
C6_PagingAmended ==
    /\ pagedArgs = <<Inc(20), Inc(20)>> => maxCount["paged"] = <<60>>
    /\ pagedArgs = <<Inc(20), Inc(20), Inc(0)>> => maxCount["paged"] = <<0>>
    /\ pagedArgs = <<Inc(20), NoArgs>> => maxCount["paged"] = <<40>>
    /\ (pagedArgs # <<>> /\ AllPositive(pagedArgs))
          => maxCount["paged"] = <<pagedArgs[1].maxCount[1] + SumArgs(pagedArgs)>>
    /\ (pagedArgs # <<>> /\ pagedArgs[Len(pagedArgs)].given
          /\ pagedArgs[Len(pagedArgs)].maxCount \in {<<>>, <<0>>})
          => maxCount["paged"] = pagedArgs[Len(pagedArgs)].maxCount
    /\ maxCount["plain"] = <<>>
    /\ maxCount["root"] = <<>>

C6_Witness ==
    /\ pagedArgs = <<Inc(20), Inc(20)>>
    /\ maxCount["paged"] = <<60>>

\* C7: after completed, non-overlapping setAutoRefresh calls and
\* configuration changes, a repositories-changed subscription is active iff
\* the global setting is on and the workspace flag is true, and the
\* published command context equals that conjunction.
C7_AutoRefreshComposition ==
    (Quiescent /\ ~sarOverlap) =>
        /\ (activeSubs > 0) = (cfg.autoRefresh /\ WsGet(wsAutoRefresh))
        /\ autoRefreshDisposable = (activeSubs > 0)
        /\ ctxAutoRefresh = (cfg.autoRefresh /\ WsGet(wsAutoRefresh))

C7_Witness ==
    /\ Quiescent
    /\ ~sarOverlap
    /\ wsAutoRefresh = "true"
    /\ cfg.autoRefresh
    /\ activeSubs = 1
    /\ ctxAutoRefresh

\* C8: at every moment at most one subscription created by setAutoRefresh
\* is active, and it is the one the explorer references.
C8_SingleSubscription ==
    /\ activeSubs <= 1
    /\ activeSubs = 1 => autoRefreshDisposable

\* the handler of a configuration change calls setAutoRefresh without an
\* override exactly when the autoRefresh setting changed (line 109)
RefreshTriggered(reason) ==
    /\ lastReason' = reason
    /\ exAwait' + exReady' = exAwait + exReady + 1

\* C9 as stated: with the global setting on, setAutoRefresh triggers a
\* refresh (AutoRefreshChanged) for either override value, and never on the
\* default-read path.
C9_RefreshOnOverride ==
    [][/\ \A w \in BOOLEAN :
             SetAutoRefreshResume(w) => RefreshTriggered("AutoRefreshChanged")
       /\ cfg'.autoRefresh # cfg.autoRefresh => ~RefreshTriggered("AutoRefreshChanged")]_vars

\* C9 amended: the refresh is triggered exactly when the override is true;
\* an override of false and the default-read path trigger none.
C9_RefreshOnOverrideTrue ==
    [][/\ \A w \in BOOLEAN :
             SetAutoRefreshResume(w) => (RefreshTriggered("AutoRefreshChanged") <=> w)
       /\ cfg'.autoRefresh # cfg.autoRefresh => ~RefreshTriggered("AutoRefreshChanged")
       /\ \A w \in BOOLEAN :
             SetAutoRefreshCommand(w) => ~RefreshTriggered("AutoRefreshChanged")]_vars

C9_Witness ==
    /\ lastReason = "AutoRefreshChanged"
    /\ wsAutoRefresh = "true"
    /\ Quiescent
    /\ exReady = 1

C11_SingleTreeHandle ==
    [][/\ Cardinality(activeTrees') <= 1
       /\ activeTrees' = {tree'}
       /\ disposable' = tree'
       /\ cfg'.location # cfg.location =>
             (tree \notin activeTrees' /\ tree' # tree /\ treeLocation' = cfg'.location)
       /\ cfg'.location = cfg.location =>
             UNCHANGED <<tree, disposable, activeTrees, treeLocation>>]_vars

C11_Witness ==
    /\ tree = 3
    /\ activeTrees = {3}
    /\ disposable = 3
    /\ treeLocation = cfg.location

\* position of an effect in the handler's fixed order
Rank(x) ==
    CASE x = "context" -> 1 [] x = "autoRefresh" -> 2 [] x = "tree" -> 3 [] x = "refresh" -> 4

\* what one run of the handler for the change from cfg to `new` has to do
GatedOnce(new, other) ==
    LET chEnabled     == new.enabled # cfg.enabled
        chLocation    == new.location # cfg.location
        chAutoRefresh == new.autoRefresh # cfg.autoRefresh
        ran(x)        == x \in Range(effects')
        on            == new.autoRefresh /\ WsGet(wsAutoRefresh)
    IN  /\ \A i, j \in 1..Len(effects') : i < j => Rank(effects'[i]) < Rank(effects'[j])
        /\ ran("context") <=> (chEnabled \/ chLocation)
        /\ ran("autoRefresh") <=> chAutoRefresh
        /\ ran("tree") <=> chLocation
        /\ ran("refresh") <=> (new # cfg \/ other # "none")
        /\ IF ran("context")
           THEN ctxGitExplorer' = (IF new.enabled THEN new.location ELSE "false")
           ELSE UNCHANGED ctxGitExplorer
        /\ IF ran("autoRefresh")
           THEN /\ activeSubs' = (IF on THEN 1 ELSE 0)
                /\ autoRefreshDisposable' = on
                /\ ctxAutoRefresh' = on
           ELSE UNCHANGED varsA
        /\ IF ran("tree")
           THEN nextTree' = nextTree + 1 /\ tree' = nextTree /\ activeTrees' = {nextTree}
           ELSE UNCHANGED varsT
        /\ IF ran("refresh")
           THEN RefreshTriggered("ConfigurationChanged")
           ELSE UNCHANGED <<exAwait, exReady, lastReason, treeDataFired, rfAwait>>

\* C12: for one configuration change event each of the three effects runs at
\* most once and only if its own gate is satisfied, in the order (a) context,
\* (b) setAutoRefresh, (c) tree rebuild, followed by one refresh; an event
\* touching two gated settings runs both effects once each, and an event
\* touching none of the sections the handler listens to runs nothing.
C12_GatedEffectsOnce ==
    [][\A new \in Config, other \in OtherChange :
          ConfigurationChangedLogged(new, other) => GatedOnce(new, other)]_vars

C12_Witness ==
    /\ effects = <<"context", "autoRefresh", "tree", "refresh">>
    /\ tree = 2
    /\ lastReason = "ConfigurationChanged"

\* C14: refreshNode(node) notifies the host with that node as the changed
\* element when the node is not the root and with no element (whole tree)
\* when it is the root; the root is never reported as the changed element.
C14_RefreshNodeElement ==
    [][\A node \in Targets, args \in Args :
          RefreshNode(node, args) =>
              /\ treeDataFired' = (IF node = "root" THEN "all" ELSE node)
              /\ treeDataFired' # "root"]_vars

C14_Witness ==
    /\ treeDataFired = "all"
    /\ rfAwait = 1
    /\ children # Undef

\* C13: GitExplorer.refresh(reason) emits the whole-tree-changed notification
\* only after the root refresh of that call has completed: the call itself
\* emits nothing while a root exists, the resolution of the root refresh makes
\* exactly that call ready, and the emission (no node argument) consumes one
\* ready call; the steps are the same for every reason; without a root the
\* call emits at once.
C13_FireAfterRootRefresh ==
    [][/\ ((RefreshCommand \/ OnRepositoriesChanged) /\ root # 0) =>
             /\ treeDataFired' = treeDataFired
             /\ lastReason' \in Reasons
             /\ IF children = Undef
                THEN exReady' = exReady + 1 /\ UNCHANGED <<exAwait, rfAwait>>
                ELSE exAwait' = exAwait + 1 /\ rfAwait' = rfAwait + 1 /\ UNCHANGED exReady
       /\ ((RefreshCommand \/ OnRepositoriesChanged) /\ root = 0) =>
             (treeDataFired' = "all" /\ UNCHANGED <<exAwait, exReady, rfAwait>>)
       /\ ExplorerRefreshResume =>
             /\ treeDataFired' = treeDataFired
             /\ exAwait' = exAwait - 1
             /\ exReady' = (IF lastRefresh' = "ok" THEN exReady + 1 ELSE exReady)
       /\ ExplorerRefreshFire =>
             /\ exReady > 0
             /\ exReady' = exReady - 1
             /\ treeDataFired' = "all"
       /\ treeDataFired' # treeDataFired => ExplorerRefreshFire]_vars

C13_Witness ==
    /\ treeDataFired = "all"
    /\ lastReason = "RepoChanged"
    /\ lastRefresh = "ok"
    /\ children # Undef
    /\ Len(children) = 2
    /\ childRefreshed = {children[1].id}
    /\ exAwait = 0
    /\ exReady = 0

\* the call computed its range and got past the checks of lines 116-121,
\* 172-177 with a whole-line range
C15_WholeLineRange == hv'.pc \in {"log", "document"} /\ hv'.start = 0
\* the call treated the hover as a sub-range hover at position char:
\* suppressed while annotations are suspended or away from the annotation
\* start, else ranged from the annotation start (the end of the line)
C15_SubRange(char) ==
    IF suspended THEN hv'.result = "undefined" /\ hv'.at \in {116, 172}
    ELSE IF char # ValidateRangeStart(MaxSafeInteger)
    THEN hv'.result = "undefined" /\ hv'.at \in {121, 177}
    ELSE hv'.pc \in {"log", "document"} /\ hv'.start = LineLen
\* a step of provideDetailsHover / provideChangesHover that reaches line 114 / 170
C15_DetailsRangeStep == DetailsHoverAnnotations /\ hv'.at # 112
C15_ChangesRangeStep == ChangesHoverAnnotations /\ hv'.at # 167
C15_ChangesCallRangeStep(char) ==
    ChangesHoverCall(char) /\ hv'.pc # "annotations" /\ hv'.at \notin {158, 162}

C15_Ranged(char) ==
    IF Debugging \/ hovers.over # "line" THEN C15_SubRange(char) ELSE C15_WholeLineRange

C16_DetailsSuppressedByAnnotations ==
    [][/\ (DetailsHoverAnnotations /\ fileAnnotations # "undefined" /\ hovers.annotationsDetails) =>
             /\ hv' = Undefined("details", 112)
             /\ ~hv'.fetched
             /\ lineState' = lineState
       /\ \A char \in Characters :
             (DetailsHoverCall(char) /\ (~lineTracked \/ LineCommit = <<>>)) =>
                /\ hv'.result = "undefined"
                /\ ~hv'.fetched
                /\ lineState' = lineState]_vars

C16_Witness ==
    /\ hv = Undefined("details", 112)
    /\ fileAnnotations = "blame"
    /\ hovers.annotationsDetails
    /\ lineTracked
    /\ lineState # <<>>
    /\ lineState[1].commit # <<>>
    /\ ~lineState[1].commit[1].isUncommitted
    /\ lineState[1].logCommit = <<>>

\* C19: a details hover that reaches line 124 asks the backend for the log
\* commit exactly when the line state it read holds no log commit and its
\* commit is committed; a fetched log commit takes previousSha and
\* previousFileName from the blame commit and is stored in that line state;
\* a stored log commit is reused without a fetch.
C19_LogCommitUpgrade ==
    /\ [](hv.pc = "log" => hv.fetched /\ ~hv.commit[1].isUncommitted)
    /\ [][/\ (DetailsHoverAnnotations /\ hv'.pc \in {"log", "document"}) =>
                IF CapturedLog = <<>> /\ ~hv.commit[1].isUncommitted
                THEN hv'.pc = "log" /\ lineState' = lineState
                ELSE /\ hv'.pc = "document"
                     /\ ~hv'.fetched
                     /\ hv'.logCommit = CapturedLog
                     /\ lineState' = lineState
          /\ DetailsHoverLog(TRUE) =>
                /\ hv'.logCommit # <<>>
                /\ hv'.logCommit[1].sha = hv.commit[1].sha
                /\ hv'.logCommit[1].previousSha = hv.commit[1].previousSha
                /\ hv'.logCommit[1].previousFileName = hv.commit[1].previousFileName
                /\ IF hv.stale
                   THEN hv'.objLog = hv'.logCommit /\ lineState' = lineState
                   ELSE lineState' = <<[lineState[1] EXCEPT !.logCommit = hv'.logCommit]>>
          /\ DetailsHoverLog(FALSE) => (hv'.logCommit = <<>> /\ lineState' = lineState)]_vars

C19_Witness ==
    /\ hv.kind = "details"
    /\ hv.pc = "document"
    /\ ~hv.fetched
    /\ ~hv.stale
    /\ hv.logCommit # <<>>
    /\ hv.logCommit[1].previousSha = "p1"
    /\ hv.logCommit[1].previousFileName = "f1"
    /\ lineState[1].logCommit = hv.logCommit

C17_NoRegistrations == \A k \in Kinds : providers'[k] = 0

\* C17 as stated: at most one registration per hover kind is active, and
\* every active-lines event with no editor or no lines leaves zero
\* registrations.
C17_AsStated ==
    /\ [](\A k \in Kinds : providers[k] <= 1)
    /\ [][\A e \in LinesChangeEvent :
             (OnActiveLinesChanged(e) /\ (e.editor = "none" \/ ~e.lines)) =>
                C17_NoRegistrations]_vars

\* C17 amended: at most one registration per hover kind is active, namely
\* the one _hoverProviderDisposable wraps; an active-lines event that is
\* pending or whose reason is not "editor" leaves the registrations as they
\* are, a handled event with no editor or no lines leaves zero registrations,
\* a handled event with editor and lines leaves the registrations of the
\* configured kinds for that editor, and dispose leaves zero registrations.
C17_OneRegistrationPerKind ==
    /\ [](\A k \in Kinds : providers[k] = (IF k \in hoverProviderDisposable THEN 1 ELSE 0))
    /\ [][/\ \A e \in LinesChangeEvent :
                OnActiveLinesChanged(e) =>
                   IF e.pending \/ e.reason # "editor"
                   THEN UNCHANGED <<providers, hoverProviderDisposable, providerDoc>>
                   ELSE IF e.editor = "none" \/ ~e.lines
                   THEN C17_NoRegistrations
                   ELSE /\ \A k \in Kinds :
                              providers'[k] = (IF hovers.enabled /\ hovers.currentLineEnabled
                                                  /\ hovers[k]
                                               THEN 1 ELSE 0)
                        /\ (\E k \in Kinds : providers'[k] = 1) => providerDoc' = e.editor
          /\ HoverDispose => C17_NoRegistrations]_vars

C17_Witness ==
    /\ linesEvent = <<[editor |-> "d2", lines |-> TRUE, pending |-> FALSE, reason |-> "editor"]>>
    /\ activeEditor = "d1"
    /\ providerDoc = "d2"
    /\ hoverProviderDisposable = Kinds
    /\ \A k \in Kinds : providers[k] = 1

\* C18: a registration of the controller is active only while both the
\* global and the current-line setting are on; while the controller listens,
\* line tracking runs exactly then; a change that turns either off removes
\* the registrations and stops the tracking; a pending active-lines event
\* changes nothing.
C18_ActivationGate ==
    /\ []((\E k \in Kinds : providers[k] > 0) => (hovers.enabled /\ hovers.currentLineEnabled))
    /\ [](ctlDisposable => (tracking <=> (hovers.enabled /\ hovers.currentLineEnabled)))
    /\ [][/\ \A new \in RegistrationConfigs :
                (HoverConfigurationChanged(new) /\ ctlDisposable
                    /\ ~(new.enabled /\ new.currentLineEnabled)) =>
                   /\ \A k \in Kinds : providers'[k] = 0
                   /\ hoverProviderDisposable' = {}
                   /\ ~tracking'
          /\ \A e \in LinesChangeEvent :
                (OnActiveLinesChanged(e) /\ e.pending) =>
                   UNCHANGED <<providers, hoverProviderDisposable, providerDoc, tracking>>]_vars

C18_Witness ==
    /\ ctlDisposable
    /\ hovers.enabled
    /\ ~hovers.currentLineEnabled
    /\ hovers.details
    /\ hovers.changes
    /\ activeEditor = "d1"
    /\ ~tracking
    /\ hoverProviderDisposable = {}
    /\ \A k \in Kinds : providers[k] = 0

\* C20: when GitService.initialize fails, activate() logs the failure once,
\* shows the error message at most once (only for "Unable to find git"),
\* sets the Enabled command context to false and returns: nothing is
\* constructed or registered, no setting is migrated and the stored version
\* keeps its value.
C20_InitializeFailure ==
    /\ [](actPc \in {"showErrorMessage", "failed"} =>
             /\ initError \in ErrorMessages
             /\ errorLog = <<[ex |-> initError, caller |-> "activate"]>>
             /\ errorsShown = (IF Includes(initError, "Unable to find git") THEN 1 ELSE 0)
             /\ constructed = {}
             /\ updating = <<>>)
    /\ [](actPc = "failed" => ctxEnabled = "false")
    /\ [](errorsShown <= 1)
    /\ [][actPc' \in {"showErrorMessage", "failed"} =>
             /\ actPc \in {"initialize", "showErrorMessage"}
             /\ UNCHANGED <<storedVersion, constructed, suppressedFlags, messages,
                            closeOnFocusOut>>]_vars

C20_Witness ==
    /\ actPc = "failed"
    /\ Includes(initError, "Unable to find git")
    /\ errorsShown = 1
    /\ ctxEnabled = "false"
    /\ storedVersion = << <<6, 1, 2>> >>
    /\ suppressedFlags["UpdateNotice"] = "true"
    /\ closeOnFocusOut.globalValue = "true"
    /\ constructed = {}

\* C21: every child a refresh() drops from the cached list is disposed
\* exactly once by that refresh, also when the set became empty and the
\* list collapses to the placeholder; children it keeps are not disposed.
C21_RemovedDisposedOnce ==
    [][(RefreshResume /\ children # Undef /\ lastRefresh' = "ok") =>
          \A c \in Range(children) :
             IF c \in Range(children')
             THEN disposeCount'[c.id] = disposeCount[c.id]
             ELSE disposeCount[c.id] = 0 /\ disposeCount'[c.id] = 1]_vars

\* C22: refresh() never raises; a refresh of the cached placeholder that
\* sees a non-empty repository set installs one freshly constructed child
\* per repository in ascending index order.
C22_RefreshNeverThrows ==
    [][RefreshResume =>
          /\ lastRefresh' = "ok"
          /\ (children # Undef /\ ~RepoChildrenOnly(children) /\ backend # {}) =>
                /\ Len(children') = Cardinality(backend)
                /\ \A i \in 1..Len(children') :
                      /\ children'[i].kind = "repo"
                      /\ children'[i].id >= nextId
                      /\ \E r \in backend : r.path = children'[i].path
                /\ \A i, j \in 1..Len(children') :
                      i < j => IndexOf(backend, children'[i].path)
                                  < IndexOf(backend, children'[j].path)]_vars

\* C24: a getChildren() call that resumes after an overlapping call has
\* already cached the list returns that list and constructs no node.
C24_OverlappingGetChildren ==
    [][(GetChildrenResume /\ children # Undef) =>
          /\ Returned(children', gcRet') = children
          /\ nextId' = nextId]_vars

\* C23: with auto-refresh effective, a repositories-changed signal makes the
\* explorer refresh its root and then emit the whole-tree notification,
\* whatever the root has cached: a refresh() call of the explorer that awaits
\* the root's refresh eventually gets past the await to the fire of line 194
\* (with nothing cached the call is there at once).
C23_RepoChangedEventuallyFires ==
    (lastReason = "RepoChanged" /\ activeSubs > 0 /\ exAwait > 0) ~> (exReady > 0)

\* C25: while the controller is alive its debugging flag is true exactly
\* while at least one debug session has started and not terminated, also
\* with overlapping sessions; the session-end subscription exists exactly
\* while the flag is true, and there is at most one.
C25_DebuggingFlag ==
    ctlDisposable =>
        /\ Debugging <=> debugSessions > 0
        /\ debugEndSubs = (IF Debugging THEN 1 ELSE 0)

\* the closeOnFocusOut migration is due for the previous version and there
\* is a value to invert
C26_CloseDue(previousVersion) ==
    /\ previousVersion # <<>>
    /\ VersionsCompare(previousVersion[1], <<7, 1, 0>>) # 1
    /\ \/ closeOnFocusOut.globalValue # "undefined"
       \/ closeOnFocusOut.workspaceFolderValue # "undefined"

\* C26: for every previous version up to 7.1.0, migrateSettings inverts the
\* closeOnFocusOut value (the global one, else the workspace-folder one)
\* exactly once, whatever the messages migration did: activation completes
\* only through the update of that setting, the update writes the negated
\* value to that target alone, and without a previous version no setting
\* is touched.
C26_MigrationsIndependent ==
    [][/\ (actPc # "activated" /\ actPc' = "activated" /\ C26_CloseDue(storedVersion)) =>
             actPc = "updateCloseOnFocusOut"
       /\ CloseOnFocusOutUpdated(TRUE) =>
             closeOnFocusOut' =
                IF closeOnFocusOut.globalValue # "undefined"
                THEN [closeOnFocusOut EXCEPT !.globalValue = Not(@)]
                ELSE [closeOnFocusOut EXCEPT !.workspaceFolderValue = Not(@)]
       /\ (InitializeResolved /\ storedVersion = <<>>) =>
             /\ actPc' = "activated"
             /\ UNCHANGED <<suppressedFlags, messages, closeOnFocusOut>>]_vars
====
